---- MODULE Spec2Model ----
(***************************************************************************)
(* Verification model of ai-chat-with-research-papers-aws-lambda:          *)
(*   - the chunker and the map-reduce summarizer of llm.py,                *)
(*   - the monolithic handler app.py (DOC_CACHE / CHAT_HISTORY in memory), *)
(*   - the two-Lambda deployment (research-paper-summarizer with its S3    *)
(*     cache, chat_with_paper with its /tmp files).                        *)
(* Strings are sequences of one-character strings, so that len, slicing,   *)
(* split and join are computed and not assumed.                            *)
(***************************************************************************)
EXTENDS Integers, Sequences, FiniteSets, TLC

VARIABLES
    \* ---- chunker harness (specification SplitSpec) ----
    split_pc,       \* "ready" | "done"
    in_text,        \* argument text of _split_text
    in_max,         \* argument max_chars
    in_overlap,     \* argument overlap
    out_chunks,     \* the list _split_text returned
    \* ---- app.py (module globals) ----
    DOC_CACHE,      \* url -> [text, summaries: level -> html]
    CHAT_HISTORY,   \* <<sid, url>> -> list of [role, text]
    \* ---- research-paper-summarizer / chat_with_paper ----
    s3,             \* the S3 bucket: url -> [text, summaries]
    paper_files,    \* /tmp/paper_cache of chat_with_paper: url -> [text, summaries]
    chat_files,     \* /tmp/chat_cache of chat_with_paper: key -> list of [role, text]
    client_cache,   \* _CLIENT_CACHE of each Lambda: set or not
    \* ---- the request being served ----
    deploy,         \* "app" (app.py) | "lambda" (the two Lambda functions)
    pc,             \* "idle" | "extract" | "map" | "reduce" | "chat" | "done"
    rq,             \* the request: handler, body, url, complexity, level, sid, message
    loc,            \* the handler's locals: text, summaries, history, cache hit
    ext,            \* the external calls this request has issued, in order
    resp,           \* the response returned ([status |-> 0] while none)
    \* ---- bookkeeping of the requests served so far ----
    pre,            \* the stores as they were when the request arrived
    prev_fail,      \* url of the request just served if its extraction failed
    nreq,           \* requests received so far
    \* ---- concurrent invocations of research-paper-summarizer (RaceSpec) ----
    race            \* per invocation: position, level, cached_data, summary; last writer

splitVars == <<split_pc, in_text, in_max, in_overlap, out_chunks>>

storeVars == <<DOC_CACHE, CHAT_HISTORY, s3, paper_files, chat_files, client_cache>>

reqVars == <<deploy, pc, rq, loc, ext, resp, pre, prev_fail, nreq>>

raceVars == <<race>>

vars == <<split_pc, in_text, in_max, in_overlap, out_chunks,
          DOC_CACHE, CHAT_HISTORY, s3, paper_files, chat_files, client_cache,
          deploy, pc, rq, loc, ext, resp, pre, prev_fail, nreq, race>>

--------------------------------------------------------------------------
(* Bounds of the chunker harness *)
MaxTextLen == 6
MaxChars == 4
MaxOverlap == 5

Alphabet == {"a", "b", " "}
Whitespace == {" "}

RECURSIVE StringsUpTo(_)
StringsUpTo(n) ==
    IF n = 0 THEN {<<>>}
    ELSE LET shorter == StringsUpTo(n - 1)
         IN shorter \cup {Append(s, c) : s \in {t \in shorter : Len(t) = n - 1}, c \in Alphabet}

--------------------------------------------------------------------------
(* Python string primitives used by llm.py *)

\* str.split(): the maximal runs of non-whitespace characters, in order
RECURSIVE SplitFrom(_, _, _, _)
SplitFrom(s, i, cur, acc) ==
    IF i > Len(s) THEN (IF cur # <<>> THEN Append(acc, cur) ELSE acc)
    ELSE IF s[i] \in Whitespace
         THEN SplitFrom(s, i + 1, <<>>, IF cur # <<>> THEN Append(acc, cur) ELSE acc)
         ELSE SplitFrom(s, i + 1, Append(cur, s[i]), acc)

split(s) == SplitFrom(s, 1, <<>>, <<>>)

\* " ".join(parts)
RECURSIVE JoinFrom(_, _)
JoinFrom(parts, i) ==
    IF i > Len(parts) THEN <<>>
    ELSE IF i = Len(parts) THEN parts[i]
    ELSE parts[i] \o <<" ">> \o JoinFrom(parts, i + 1)

JoinNoSep(parts) ==
    LET RECURSIVE Cat(_)
        Cat(i) == IF i > Len(parts) THEN <<>> ELSE parts[i] \o Cat(i + 1)
    IN Cat(1)

join(parts) == JoinFrom(parts, 1)

\* s[-k:] for k >= 0.  Python reads -0 as 0, so s[-0:] is the whole of s.
TailWhole(s, k) == s

tail_slice(s, k) ==
    IF k = 0 \/ k >= Len(s) THEN s
    ELSE SubSeq(s, Len(s) - k + 1, Len(s))

--------------------------------------------------------------------------
(* llm.py: _split_text *)

\* one iteration of "for w in words" (llm.py lines 59-68)
SplitStepDropWord(st, w, max_chars, overlap) ==
    LET lw == Len(w) + 1
    IN IF st.cur_len + lw > max_chars
       THEN LET tail == tail_slice(join(st.cur), overlap)
            IN [chunks |-> Append(st.chunks, join(st.cur)),
                cur |-> <<tail>>, cur_len |-> Len(tail)]
       ELSE [chunks |-> st.chunks, cur |-> Append(st.cur, w),
             cur_len |-> st.cur_len + lw]

SplitStep(st, w, max_chars, overlap) ==
    LET lw == Len(w) + 1
        closed == IF st.cur_len + lw > max_chars
                  THEN LET tail == tail_slice(join(st.cur), overlap)
                       IN [chunks |-> Append(st.chunks, join(st.cur)),
                           cur |-> <<tail>>, cur_len |-> Len(tail)]
                  ELSE st
    IN [chunks |-> closed.chunks, cur |-> Append(closed.cur, w),
        cur_len |-> closed.cur_len + lw]

RECURSIVE SplitLoop(_, _, _, _, _)
SplitLoop(words, i, st, max_chars, overlap) ==
    IF i > Len(words) THEN st
    ELSE SplitLoop(words, i + 1, SplitStep(st, words[i], max_chars, overlap),
                   max_chars, overlap)

SplitTextStrict(text, max_chars, overlap) ==
    LET st == SplitLoop(split(text), 1,
                        [chunks |-> <<>>, cur |-> <<>>, cur_len |-> 0],
                        max_chars, overlap)
        all == IF st.cur # <<>> THEN Append(st.chunks, join(st.cur)) ELSE st.chunks
    IN IF Len(text) < max_chars THEN <<text>> ELSE all

_split_text(text, max_chars, overlap) ==
    IF Len(text) <= max_chars THEN <<text>>
    ELSE LET st == SplitLoop(split(text), 1,
                             [chunks |-> <<>>, cur |-> <<>>, cur_len |-> 0],
                             max_chars, overlap)
         IN IF st.cur # <<>> THEN Append(st.chunks, join(st.cur)) ELSE st.chunks

--------------------------------------------------------------------------
(* Values.  Every Python string is a sequence of atoms: characters for the  *)
(* document texts, lexical tokens ("http://", "LOW", "q1") elsewhere.       *)

NONE == <<"None">>                   \* Python's None
EmptyDict == << >>                   \* {}

\* d[k] = v on a dict
PutAlone(d, k, v) == [x \in {k} |-> v]

Put(d, k, v) == [x \in (DOMAIN d) \cup {k} |-> IF x = k THEN v ELSE d[x]]

\* bool(x) of a string-or-None
Truthy(x) == x # NONE /\ x # <<>>

RECURSIVE lstrip(_)
lstrip(s) == IF s # <<>> /\ Head(s) \in Whitespace THEN lstrip(Tail(s)) ELSE s

RECURSIVE rstrip(_)
rstrip(s) ==
    IF s # <<>> /\ s[Len(s)] \in Whitespace THEN rstrip(SubSeq(s, 1, Len(s) - 1)) ELSE s

strip(s) == rstrip(lstrip(s))

UpperAtom(t) ==
    CASE t = "low" -> "LOW"
      [] t = "medium" -> "MEDIUM"
      [] t = "high" -> "HIGH"
      [] t = "expert" -> "EXPERT"
      [] OTHER -> t

upper(s) == [i \in 1..Len(s) |-> UpperAtom(s[i])]

startswith(s, prefix) ==
    Len(s) >= Len(prefix) /\ SubSeq(s, 1, Len(prefix)) = prefix

\* sep.join(parts) for parts that are strings
RECURSIVE join_with(_, _, _)
join_with(sep, parts, i) ==
    IF i > Len(parts) THEN <<>>
    ELSE IF i = Len(parts) THEN parts[i]
    ELSE parts[i] \o sep \o join_with(sep, parts, i + 1)

--------------------------------------------------------------------------
(* Sizes.  The handlers' thresholds are scaled down so that documents of a  *)
(* dozen characters cross them:                                             *)
(*   DEFAULT_MAX_CHARS  stands for max_chars = 20000  (llm.py:51)            *)
(*   DEFAULT_OVERLAP    stands for overlap = 800      (llm.py:51)            *)
(*   MIN_TEXT_CHARS     stands for 200                (app.py:124)           *)
(*   MAX_CONTEXT_CHARS  stands for 60000              (llm.py:99)            *)
DEFAULT_MAX_CHARS == 6
DEFAULT_OVERLAP == 2
MIN_TEXT_CHARS == 3
MAX_CONTEXT_CHARS == 7
MaxRequests == 3

VALID_LEVELS == {<<"LOW">>, <<"MEDIUM">>, <<"HIGH">>}

\* what the clients send
UrlInputs == {<<>>, <<"ftp://", "p1">>, <<" ", "http://", "p1">>}
LevelInputs == {<<>>, <<" ", "high">>, <<"MEDIUM">>, <<"expert">>}
CookieInputs == {<<>>, <<"sid=", "s1">>}
MessageInputs == {<<>>, <<" ">>, <<"q1", " ">>}
SessionInputs == {<<>>, <<"s1">>}

\* what extract_text_from_url can return
TEXT_EMPTY == <<>>
TEXT_SHORT == <<" ", "a", " ">>
TEXT_ONE == <<"a", "a", " ", "a", "b">>
TEXT_TWO == <<"a", "a", " ", "a", "b", " ", "b", "b">>
ExtractResults == {TEXT_EMPTY, TEXT_SHORT, TEXT_ONE, TEXT_TWO}

\* what client.models.generate_content can return: the attributes _call_gemini
\* reads.  candidate_text = RAISES: resp.candidates[0].content.parts[0].text raises.
RAISES == <<"raises">>
REPR == <<"str(resp)">>
Responses ==
    { [output_text |-> <<"A">>, text |-> <<"B">>, candidate_text |-> RAISES],
      [output_text |-> NONE,    text |-> <<"A">>, candidate_text |-> RAISES],
      [output_text |-> <<>>,    text |-> NONE,    candidate_text |-> <<"A">>],
      [output_text |-> NONE,    text |-> <<>>,    candidate_text |-> RAISES] }

--------------------------------------------------------------------------
(* llm.py: the oracle client, the map-reduce summarizer, the chat responder *)

_call_gemini(r) ==
    LET text == IF Truthy(r.output_text) THEN r.output_text ELSE r.text
    IN IF ~ Truthy(text)
       THEN (IF r.candidate_text = RAISES THEN REPR ELSE r.candidate_text)
       ELSE text

\* CHUNK_SUMMARY_PROMPT.format(level=level, chunk=chunk)
chunk_prompt(level, chunk) ==
    <<"CHUNK_SUMMARY_PROMPT level=">> \o level \o <<"CHUNK:">> \o chunk

\* REDUCE_SUMMARY_PROMPT.format(level=level, partials="\n\n".join(partials))
reduce_prompt(level, partials) ==
    <<"REDUCE_SUMMARY_PROMPT level=">> \o level \o <<"PARTIALS:">>
        \o join_with(<<"\n\n">>, partials, 1)

\* CHAT_PROMPT.format(context=context)
chat_prompt(context) == <<"CHAT_PROMPT CONTEXT:">> \o context

UserContent(text) == <<[role |-> "user", text |-> text]>>

\* summarize_map_reduce between two oracle calls: with the partials obtained so
\* far, the call to issue next ("map" for the next chunk, "reduce" once every
\* chunk has its partial).
SummarizeStepReversed(full_text, level, partials) ==
    LET chunks == _split_text(full_text, DEFAULT_MAX_CHARS, DEFAULT_OVERLAP)
    IN IF Len(partials) < Len(chunks)
       THEN [pc |-> "map",
             contents |-> UserContent(chunk_prompt(level, chunks[Len(chunks) - Len(partials)]))]
       ELSE [pc |-> "reduce", contents |-> UserContent(reduce_prompt(level, partials))]

summarize_step(full_text, level, partials) ==
    LET chunks == _split_text(full_text, DEFAULT_MAX_CHARS, DEFAULT_OVERLAP)
    IN IF Len(partials) < Len(chunks)
       THEN [pc |-> "map",
             contents |-> UserContent(chunk_prompt(level, chunks[Len(partials) + 1]))]
       ELSE [pc |-> "reduce", contents |-> UserContent(reduce_prompt(level, partials))]

ChatContentsUntrimmed(doc_text, history, max_context_chars) ==
    UserContent(chat_prompt(doc_text))
        \o [i \in 1..Len(history) |-> [role |-> history[i].role, text |-> history[i].text]]

\* chat_answer up to its oracle call: the contents it sends
chat_contents(doc_text, history, max_context_chars) ==
    LET context == SubSeq(doc_text, 1,
                          IF Len(doc_text) < max_context_chars
                          THEN Len(doc_text) ELSE max_context_chars)
    IN UserContent(chat_prompt(context))
         \o [i \in 1..Len(history) |-> [role |-> history[i].role, text |-> history[i].text]]

--------------------------------------------------------------------------
(* The request in flight *)

NoRequest ==
    [handler |-> "none", body |-> "none", url |-> <<>>, complexity |-> <<>>, level |-> <<>>,
     sid |-> <<>>, message |-> <<>>]
NoLocals == [text |-> <<>>, summaries |-> EmptyDict, history |-> <<>>, hit |-> FALSE]
NoResponse == [status |-> 0, body |-> "none", value |-> <<>>]
NoSnapshot == [docs |-> EmptyDict, chats |-> EmptyDict, prev_fail |-> <<>>]

ResponseAlwaysOk(status, body, value) == [status |-> 200, body |-> body, value |-> value]

Response(status, body, value) == [status |-> status, body |-> body, value |-> value]

\* an external call, as issued
Call(kind, url, contents) ==
    [call |-> kind, url |-> url, contents |-> contents, state |-> "pending", out |-> <<>>]

\* the pending (last) call of the log completes
Returned(log, out) ==
    [log EXCEPT ![Len(log)] = [@ EXCEPT !.state = "returned", !.out = out]]
Raised(log) == [log EXCEPT ![Len(log)] = [@ EXCEPT !.state = "raised"]]

\* a call that completes within the step that issues it
CallDone(kind, url, ok) ==
    [call |-> kind, url |-> url, contents |-> <<>>,
     state |-> IF ok THEN "returned" ELSE "raised", out |-> <<>>]

\* the partial summaries a summarization has collected: what its chunk calls returned
Partials(log) ==
    LET done == SelectSeq(log, LAMBDA c : c.call = "oracle" /\ c.state = "returned")
    IN [i \in 1..Len(done) |-> done[i].out]

Ready == pc = "idle" /\ nreq < MaxRequests

\* the stores as the arriving request finds them
Snapshot ==
    [docs |-> IF deploy = "app" THEN DOC_CACHE ELSE s3,
     chats |-> IF deploy = "app" THEN CHAT_HISTORY ELSE chat_files,
     prev_fail |-> prev_fail]

Begin(request) ==
    /\ rq' = request
    /\ pre' = Snapshot
    /\ nreq' = nreq + 1

\* the handler returns response r; extraction_failed: the request ended on a
\* failed extraction
Finish(request, r, extraction_failed) ==
    /\ pc' = "done"
    /\ resp' = r
    /\ prev_fail' = IF extraction_failed THEN request.url ELSE <<>>

\* the handler's return: the response goes out, the locals of the invocation are
\* gone and the process waits for the next event
HandlerReturns ==
    /\ pc = "done"
    /\ pc' = "idle"
    /\ rq' = NoRequest
    /\ loc' = NoLocals
    /\ ext' = <<>>
    /\ resp' = NoResponse
    /\ pre' = NoSnapshot
    /\ UNCHANGED <<deploy, nreq, prev_fail, DOC_CACHE, CHAT_HISTORY, s3, paper_files,
                   chat_files, client_cache, splitVars, raceVars>>

\* dict.setdefault(k, v), as the dict it leaves
setdefault(d, k, v) == IF k \in DOMAIN d THEN d ELSE Put(d, k, v)

\* list.pop() of the last element, as the list it leaves
PopKeepsTurn(history) == history

pop(history) == SubSeq(history, 1, Len(history) - 1)

\* "not text or len(text.strip()) < 200"
TooShortNever(text) == FALSE

too_short(text) == ~ Truthy(text) \/ Len(strip(text)) < MIN_TEXT_CHARS

IsHttpUrlAlways(url) == TRUE

is_http_url(url) == startswith(url, <<"http://">>) \/ startswith(url, <<"https://">>)

NormalizeKeepsLevel(complexity) == upper(strip(complexity))

\* "level = (... or 'LOW').strip().upper(); if level not in VALID_LEVELS: level = 'LOW'"
normalize_level(complexity) ==
    LET level == upper(strip(IF Truthy(complexity) THEN complexity ELSE <<"LOW">>))
    IN IF level \in VALID_LEVELS THEN level ELSE <<"LOW">>

--------------------------------------------------------------------------
(* app.py: lambda_handler *)

appStores == <<DOC_CACHE, CHAT_HISTORY>>
lambdaStores == <<s3, paper_files, chat_files, client_cache>>

\* uuid.uuid4() is a session id no stored history uses: the model numbers it by
\* the uuid sessions CHAT_HISTORY already holds.
_ensure_sid(cookie, history) ==
    IF startswith(cookie, <<"sid=">>)
    THEN SubSeq(cookie, 2, Len(cookie))
    ELSE <<"uuid4-", ToString(Cardinality({k \in DOMAIN history : k[1][1] = "uuid4-"}))>>

\* POST /summarize from "text = DOC_CACHE[url]['text']" on (app.py lines 128-137),
\* with cache the DOC_CACHE that holds the document and log the calls made so far
AppHaveDoc(request, cache, log) ==
    LET url == request.url
        level == request.level
        text == cache[url].text
    IN IF level \notin DOMAIN cache[url].summaries
       THEN LET step == summarize_step(text, level, <<>>)
            IN /\ pc' = step.pc
               /\ ext' = Append(log, Call("oracle", <<>>, step.contents))
               /\ loc' = [NoLocals EXCEPT !.text = text]
               /\ DOC_CACHE' = cache
               /\ resp' = NoResponse
               /\ UNCHANGED <<CHAT_HISTORY, prev_fail>>
       ELSE /\ Finish(request, Response(200, "summary", cache[url].summaries[level]), FALSE)
            /\ ext' = log
            /\ loc' = [NoLocals EXCEPT !.text = text, !.hit = TRUE]
            /\ DOC_CACHE' = cache
            /\ CHAT_HISTORY' = setdefault(CHAT_HISTORY, <<request.sid, url>>, <<>>)

\* POST /summarize up to the extraction call or, on a cached document, up to
\* the response or the first oracle call (app.py lines 84-90, 111-137)
AppSummarize(cookie, paper_url, complexity) ==
    /\ deploy = "app"
    /\ Ready
    /\ LET request == [handler |-> "app_summarize",
                       body |-> "form",
                       complexity |-> complexity,
                       url |-> strip(paper_url),
                       level |-> normalize_level(complexity),
                       sid |-> _ensure_sid(cookie, CHAT_HISTORY),
                       message |-> <<>>]
       IN /\ Begin(request)
          /\ IF ~ is_http_url(request.url)
             THEN /\ Finish(request, Response(400, "error", <<"Please enter a valid http(s) URL.">>), FALSE)
                  /\ ext' = <<>>
                  /\ loc' = NoLocals
                  /\ UNCHANGED appStores
             ELSE IF request.url \notin DOMAIN DOC_CACHE
             THEN /\ pc' = "extract"
                  /\ ext' = <<Call("extract", request.url, <<>>)>>
                  /\ loc' = NoLocals
                  /\ resp' = NoResponse
                  /\ UNCHANGED <<appStores, prev_fail>>
             ELSE AppHaveDoc(request, DOC_CACHE, <<>>)
    /\ UNCHANGED <<deploy, lambdaStores, splitVars, raceVars>>

\* extract_text_from_url returns (app.py lines 123-127, then 128-137)
AppExtractReturns(text) ==
    /\ rq.handler = "app_summarize"
    /\ pc = "extract"
    /\ IF too_short(text)
       THEN /\ Finish(rq, Response(400, "error", <<"Could not extract enough text from the provided URL.">>), TRUE)
            /\ ext' = Returned(ext, text)
            /\ UNCHANGED <<loc, appStores>>
       ELSE AppHaveDoc(rq, Put(DOC_CACHE, rq.url, [text |-> text, summaries |-> EmptyDict]),
                       Returned(ext, text))
    /\ UNCHANGED <<deploy, rq, pre, nreq, lambdaStores, splitVars, raceVars>>

\* extract_text_from_url raises: the except of app.py lines 138-140
AppExtractRaises ==
    /\ rq.handler = "app_summarize"
    /\ pc = "extract"
    /\ Finish(rq, Response(500, "error", <<"Error: ">>), TRUE)
    /\ ext' = Raised(ext)
    /\ UNCHANGED <<deploy, rq, pre, nreq, loc, appStores, lambdaStores, splitVars, raceVars>>

\* an oracle call of summarize_map_reduce returns (llm.py lines 87-96), and on
\* the reduce call's return app.py lines 131, 134-137
AppOracleReturns(r) ==
    /\ rq.handler = "app_summarize"
    /\ pc \in {"map", "reduce"}
    /\ LET log == Returned(ext, _call_gemini(r))
       IN IF pc = "map"
          THEN LET step == summarize_step(loc.text, rq.level, Partials(log))
               IN /\ pc' = step.pc
                  /\ ext' = Append(log, Call("oracle", <<>>, step.contents))
                  /\ UNCHANGED <<resp, prev_fail, appStores>>
          ELSE /\ Finish(rq, Response(200, "summary", _call_gemini(r)), FALSE)
               /\ ext' = log
               /\ DOC_CACHE' = [DOC_CACHE EXCEPT ![rq.url].summaries =
                                    Put(@, rq.level, _call_gemini(r))]
               /\ CHAT_HISTORY' = setdefault(CHAT_HISTORY, <<rq.sid, rq.url>>, <<>>)
    /\ UNCHANGED <<deploy, rq, pre, nreq, loc, lambdaStores, splitVars, raceVars>>

\* an oracle call of summarize_map_reduce raises: app.py lines 138-140
AppOracleRaises ==
    /\ rq.handler = "app_summarize"
    /\ pc \in {"map", "reduce"}
    /\ Finish(rq, Response(500, "error", <<"Error: ">>), FALSE)
    /\ ext' = Raised(ext)
    /\ UNCHANGED <<deploy, rq, pre, nreq, loc, appStores, lambdaStores, splitVars, raceVars>>

\* the JSON bodies POST /chat receives
ChatBodies ==
    {[json_ok |-> FALSE, paper_url |-> <<>>, message |-> <<>>]}
        \cup [json_ok : {TRUE}, paper_url : UrlInputs, message : MessageInputs]

\* POST /chat up to the oracle call (app.py lines 84-90, 143-160)
AppChat(cookie, body) ==
    /\ deploy = "app"
    /\ Ready
    /\ LET request == [handler |-> "app_chat",
                       body |-> IF body.json_ok THEN "json" ELSE "bad json",
                       complexity |-> <<>>,
                       url |-> strip(body.paper_url),
                       level |-> <<>>,
                       sid |-> _ensure_sid(cookie, CHAT_HISTORY),
                       message |-> strip(body.message)]
           key == <<request.sid, request.url>>
           history == Append(setdefault(CHAT_HISTORY, key, <<>>)[key],
                             [role |-> "user", text |-> request.message])
       IN /\ Begin(request)
          /\ loc' = NoLocals
          /\ IF ~ body.json_ok
             THEN /\ Finish(request, Response(400, "error", <<"Invalid JSON">>), FALSE)
                  /\ ext' = <<>>
                  /\ UNCHANGED appStores
             ELSE IF ~ Truthy(request.url) \/ ~ Truthy(request.message)
             THEN /\ Finish(request, Response(400, "error", <<"Missing url or message">>), FALSE)
                  /\ ext' = <<>>
                  /\ UNCHANGED appStores
             ELSE IF request.url \notin DOMAIN DOC_CACHE
             THEN /\ Finish(request, Response(400, "error", <<"Please summarize the paper first.">>), FALSE)
                  /\ ext' = <<>>
                  /\ UNCHANGED appStores
             ELSE /\ CHAT_HISTORY' = Put(CHAT_HISTORY, key, history)
                  /\ pc' = "chat"
                  /\ ext' = <<Call("oracle", <<>>,
                                   chat_contents(DOC_CACHE[request.url].text, history,
                                                 MAX_CONTEXT_CHARS))>>
                  /\ resp' = NoResponse
                  /\ UNCHANGED <<DOC_CACHE, prev_fail>>
    /\ UNCHANGED <<deploy, lambdaStores, splitVars, raceVars>>

\* chat_answer returns (app.py lines 159-161)
AppChatReturns(r) ==
    /\ rq.handler = "app_chat"
    /\ pc = "chat"
    /\ CHAT_HISTORY' = [CHAT_HISTORY EXCEPT ![<<rq.sid, rq.url>>] =
                            Append(@, [role |-> "model", text |-> _call_gemini(r)])]
    /\ Finish(rq, Response(200, "answer", _call_gemini(r)), FALSE)
    /\ ext' = Returned(ext, _call_gemini(r))
    /\ UNCHANGED <<deploy, rq, pre, nreq, loc, DOC_CACHE, lambdaStores, splitVars, raceVars>>

\* chat_answer raises (app.py lines 162-164)
AppChatRaises ==
    /\ rq.handler = "app_chat"
    /\ pc = "chat"
    /\ CHAT_HISTORY' = [CHAT_HISTORY EXCEPT ![<<rq.sid, rq.url>>] = pop(@)]
    /\ Finish(rq, Response(500, "error", <<"str(e)">>), FALSE)
    /\ ext' = Raised(ext)
    /\ UNCHANGED <<deploy, rq, pre, nreq, loc, DOC_CACHE, lambdaStores, splitVars, raceVars>>

\* GET / and the fallback (app.py lines 101-103, 167)
AppOther(cookie, route) ==
    /\ deploy = "app"
    /\ Ready
    /\ Begin([handler |-> "app_other", body |-> "none", url |-> <<>>, complexity |-> <<>>,
              level |-> <<>>,
              sid |-> _ensure_sid(cookie, CHAT_HISTORY), message |-> <<>>])
    /\ Finish(NoRequest,
              IF route = "GET /" THEN Response(200, "index", <<>>)
              ELSE Response(404, "error", <<"Not Found">>), FALSE)
    /\ ext' = <<>>
    /\ loc' = NoLocals
    /\ UNCHANGED <<deploy, appStores, lambdaStores, splitVars, raceVars>>

AppNext ==
    \/ \E c \in CookieInputs, u \in UrlInputs, l \in LevelInputs : AppSummarize(c, u, l)
    \/ \E t \in ExtractResults : AppExtractReturns(t)
    \/ AppExtractRaises
    \/ \E r \in Responses : AppOracleReturns(r)
    \/ AppOracleRaises
    \/ \E c \in CookieInputs, b \in ChatBodies : AppChat(c, b)
    \/ \E r \in Responses : AppChatReturns(r)
    \/ AppChatRaises
    \/ \E c \in CookieInputs, route \in {"GET /", "other"} : AppOther(c, route)

--------------------------------------------------------------------------
(* research-paper-summarizer/lambda_function.py: handler *)

\* the events the function receives (session_id is only echoed in the response)
SumEvents ==
    {[kind |-> k, paper_url |-> <<>>, complexity |-> <<>>] : k \in {"OPTIONS", "no body", "bad json"}}
        \cup [kind : {"json"}, paper_url : UrlInputs, complexity : LevelInputs]

\* the handler from "if level not in cached_data['summaries']" on (lines 242-269),
\* with the cached_data it holds and the calls made so far
SumHaveDoc(request, text, summaries, log, hit) ==
    IF request.level \notin DOMAIN summaries
    THEN LET step == summarize_step(text, request.level, <<>>)
         IN /\ pc' = step.pc
            /\ ext' = Append(log, Call("oracle", <<>>, step.contents))
            /\ loc' = [NoLocals EXCEPT !.text = text, !.summaries = summaries, !.hit = hit]
            /\ resp' = NoResponse
            /\ UNCHANGED prev_fail
    ELSE /\ Finish(request, Response(200, "summary", summaries[request.level]), FALSE)
         /\ ext' = log
         /\ loc' = [NoLocals EXCEPT !.text = text, !.summaries = summaries, !.hit = hit]

\* cache_paper_s3: put_object, whose failure is swallowed (lines 81-104)
CachePaperDropped(bucket, url, text, summaries, put_ok) == bucket

cache_paper_s3(bucket, url, text, summaries, put_ok) ==
    IF put_ok THEN Put(bucket, url, [text |-> text, summaries |-> summaries]) ELSE bucket

\* what get_cached_paper_s3 and get_cached_paper return: a stored document, or None
NoPaper == [found |-> FALSE, text |-> <<>>, summaries |-> EmptyDict]

Paper(doc) == [found |-> TRUE, text |-> doc.text, summaries |-> doc.summaries]

GetCachedPaperNever(bucket, url, get_ok) == NoPaper

\* get_cached_paper_s3: the entry, or None on NoSuchKey and on any error (lines 107-125)
get_cached_paper_s3(bucket, url, get_ok) ==
    IF get_ok /\ url \in DOMAIN bucket THEN Paper(bucket[url]) ELSE NoPaper

\* the handler up to the extraction call or, on a cached document, up to the
\* response or the first oracle call (lines 141-218, 241-269)
SumReceive(event, secret_ok, get_ok) ==
    /\ deploy = "lambda"
    /\ Ready
    /\ LET request == [handler |-> "summarizer",
                       body |-> event.kind,
                       complexity |-> event.complexity,
                       url |-> strip(event.paper_url),
                       level |-> normalize_level(event.complexity),
                       sid |-> <<>>,
                       message |-> <<>>]
           reject(status, msg) ==
               /\ Finish(request, Response(status, "error", msg), FALSE)
               /\ ext' = <<>>
               /\ loc' = NoLocals
               /\ UNCHANGED client_cache
           secret == IF client_cache.summarizer THEN <<>>
                     ELSE <<CallDone("secret", <<>>, secret_ok)>>
           cached == get_cached_paper_s3(s3, request.url, get_ok)
           log == Append(secret, CallDone("s3_get", request.url, get_ok))
       IN /\ Begin(request)
          /\ IF event.kind = "OPTIONS"
             THEN /\ Finish(request, Response(200, "preflight", <<>>), FALSE)
                  /\ ext' = <<>>
                  /\ loc' = NoLocals
                  /\ UNCHANGED client_cache
             ELSE IF event.kind = "no body" THEN reject(400, <<"Missing request body">>)
             ELSE IF event.kind = "bad json" THEN reject(400, <<"Invalid JSON in request body">>)
             ELSE IF ~ Truthy(request.url) THEN reject(400, <<"Missing paper_url">>)
             ELSE IF ~ is_http_url(request.url) THEN reject(400, <<"Please enter a valid http(s) URL">>)
             ELSE IF ~ client_cache.summarizer /\ ~ secret_ok
             THEN /\ Finish(request, Response(500, "error", <<"Failed to initialize Gemini client">>), FALSE)
                  /\ ext' = secret
                  /\ loc' = NoLocals
                  /\ UNCHANGED client_cache
             ELSE /\ client_cache' = [client_cache EXCEPT !.summarizer = TRUE]
                  /\ IF ~ cached.found
                     THEN /\ pc' = "extract"
                          /\ ext' = Append(log, Call("extract", request.url, <<>>))
                          /\ loc' = NoLocals
                          /\ resp' = NoResponse
                          /\ UNCHANGED prev_fail
                     ELSE SumHaveDoc(request, cached.text, cached.summaries, log, TRUE)
    /\ UNCHANGED <<deploy, appStores, s3, paper_files, chat_files, splitVars, raceVars>>

\* extract_text_from_url returns (lines 221-231, then 241-269)
SumExtractReturns(text, put_ok) ==
    /\ rq.handler = "summarizer"
    /\ pc = "extract"
    /\ IF too_short(text)
       THEN /\ Finish(rq, Response(400, "error", <<"Could not extract enough text from the provided URL">>), TRUE)
            /\ ext' = Returned(ext, text)
            /\ UNCHANGED <<loc, s3>>
       ELSE /\ s3' = cache_paper_s3(s3, rq.url, text, EmptyDict, put_ok)
            /\ SumHaveDoc(rq, text, EmptyDict,
                          Append(Returned(ext, text), CallDone("s3_put", rq.url, put_ok)), FALSE)
    /\ UNCHANGED <<deploy, rq, pre, nreq, appStores, paper_files, chat_files, client_cache, splitVars, raceVars>>

\* extract_text_from_url raises (lines 233-239)
SumExtractRaises ==
    /\ rq.handler = "summarizer"
    /\ pc = "extract"
    /\ Finish(rq, Response(500, "error", <<"Error extracting text: ">>), TRUE)
    /\ ext' = Raised(ext)
    /\ UNCHANGED <<deploy, rq, pre, nreq, loc, appStores, lambdaStores, splitVars, raceVars>>

\* an oracle call of summarize_map_reduce returns (llm.py lines 93-102), and on
\* the reduce call's return lines 245-248, 259-269
SumOracleReturns(r, put_ok) ==
    /\ rq.handler = "summarizer"
    /\ pc \in {"map", "reduce"}
    /\ LET log == Returned(ext, _call_gemini(r))
           summaries == Put(loc.summaries, rq.level, _call_gemini(r))
       IN IF pc = "map"
          THEN LET step == summarize_step(loc.text, rq.level, Partials(log))
               IN /\ pc' = step.pc
                  /\ ext' = Append(log, Call("oracle", <<>>, step.contents))
                  /\ UNCHANGED <<resp, prev_fail, loc, s3>>
          ELSE /\ loc' = [loc EXCEPT !.summaries = summaries]
               /\ s3' = cache_paper_s3(s3, rq.url, loc.text, summaries, put_ok)
               /\ ext' = Append(log, CallDone("s3_put", rq.url, put_ok))
               /\ Finish(rq, Response(200, "summary", summaries[rq.level]), FALSE)
    /\ UNCHANGED <<deploy, rq, pre, nreq, appStores, paper_files, chat_files, client_cache, splitVars, raceVars>>

\* an oracle call of summarize_map_reduce raises (lines 250-256)
SumOracleRaises ==
    /\ rq.handler = "summarizer"
    /\ pc \in {"map", "reduce"}
    /\ Finish(rq, Response(500, "error", <<"Error generating summary: ">>), FALSE)
    /\ ext' = Raised(ext)
    /\ UNCHANGED <<deploy, rq, pre, nreq, loc, appStores, lambdaStores, splitVars, raceVars>>

\* the outcomes of the calls an invocation makes; a call it does not make has
\* no outcome to choose
Outcomes(made) == IF made THEN BOOLEAN ELSE {TRUE}

SumValid(event) == event.kind = "json" /\ is_http_url(strip(event.paper_url))

SumNext ==
    \/ \E e \in SumEvents :
         \E secret_ok \in Outcomes(SumValid(e) /\ ~ client_cache.summarizer) :
           \E get_ok \in Outcomes(SumValid(e) /\ secret_ok) :
             SumReceive(e, secret_ok, get_ok)
    \/ \E t \in ExtractResults : \E put_ok \in Outcomes(~ too_short(t)) :
           SumExtractReturns(t, put_ok)
    \/ SumExtractRaises
    \/ \E r \in Responses : \E put_ok \in Outcomes(pc = "reduce") :
           SumOracleReturns(r, put_ok)
    \/ SumOracleRaises

--------------------------------------------------------------------------
(* chat_with_paper/lambda_function.py: handler *)

ChatEvents ==
    {[kind |-> k, paper_url |-> <<>>, message |-> <<>>, session_id |-> <<>>] :
         k \in {"OPTIONS", "no body", "bad json"}}
        \cup [kind : {"json"}, paper_url : UrlInputs, message : MessageInputs,
              session_id : SessionInputs]

\* md5(f"{session_id}:{url}"), taken as injective on what it hashes
chat_key(session_id, url) == session_id \o <<":">> \o url

\* get_chat_history: the stored list, or [] when there is no file or it cannot
\* be read (lines 88-101)
get_chat_history(files, session_id, url, read_ok) ==
    IF read_ok /\ chat_key(session_id, url) \in DOMAIN files
    THEN files[chat_key(session_id, url)]
    ELSE <<>>

\* get_cached_paper: the stored document, or None (lines 73-85)
get_cached_paper(files, url, read_ok) ==
    IF read_ok /\ url \in DOMAIN files THEN Paper(files[url]) ELSE NoPaper

\* the handler up to the oracle call (lines 124-201); fs_ok: os.makedirs of
\* get_chat_history succeeds
ChatReceive(event, secret_ok, paper_ok, fs_ok, read_ok) ==
    /\ deploy = "lambda"
    /\ Ready
    /\ LET request == [handler |-> "chat",
                       body |-> event.kind,
                       complexity |-> <<>>,
                       url |-> strip(event.paper_url),
                       level |-> <<>>,
                       sid |-> event.session_id,
                       message |-> strip(event.message)]
           reject(status, msg, log) ==
               /\ Finish(request, Response(status, "error", msg), FALSE)
               /\ ext' = log
               /\ loc' = NoLocals
           secret == IF client_cache.chat THEN <<>>
                     ELSE <<CallDone("secret", <<>>, secret_ok)>>
           paper == get_cached_paper(paper_files, request.url, paper_ok)
           \* a file that does not exist is not opened, so its read cannot fail
           log1 == Append(secret, CallDone("paper_read", request.url,
                                           paper_ok \/ request.url \notin DOMAIN paper_files))
           log2 == Append(log1, CallDone("chat_read", request.url,
                              fs_ok /\ (read_ok \/ chat_key(request.sid, request.url)
                                                      \notin DOMAIN chat_files)))
           history == Append(get_chat_history(chat_files, request.sid, request.url, read_ok),
                             [role |-> "user", text |-> request.message])
       IN /\ Begin(request)
          /\ IF event.kind = "OPTIONS"
             THEN /\ Finish(request, Response(200, "preflight", <<>>), FALSE)
                  /\ ext' = <<>>
                  /\ loc' = NoLocals
                  /\ UNCHANGED client_cache
             ELSE IF event.kind = "no body"
             THEN reject(400, <<"Missing request body">>, <<>>) /\ UNCHANGED client_cache
             ELSE IF event.kind = "bad json"
             THEN reject(500, <<"Internal server error: ">>, <<>>) /\ UNCHANGED client_cache
             ELSE IF ~ Truthy(request.url) \/ ~ Truthy(request.message)
             THEN reject(400, <<"Missing paper_url or message">>, <<>>) /\ UNCHANGED client_cache
             ELSE IF ~ Truthy(request.sid)
             THEN reject(400, <<"Missing session_id">>, <<>>) /\ UNCHANGED client_cache
             ELSE IF ~ client_cache.chat /\ ~ secret_ok
             THEN reject(500, <<"Failed to initialize Gemini client">>, secret)
                    /\ UNCHANGED client_cache
             ELSE /\ client_cache' = [client_cache EXCEPT !.chat = TRUE]
                  /\ IF ~ paper.found
                     THEN reject(400, <<"Please summarize the paper first">>, log1)
                     ELSE IF ~ fs_ok
                     THEN reject(500, <<"Internal server error: ">>, log2)
                     ELSE /\ pc' = "chat"
                          /\ ext' = Append(log2, Call("oracle", <<>>,
                                        chat_contents(paper.text, history, MAX_CONTEXT_CHARS)))
                          /\ loc' = [NoLocals EXCEPT !.text = paper.text, !.history = history,
                                                     !.hit = TRUE]
                          /\ resp' = NoResponse
                          /\ UNCHANGED prev_fail
    /\ UNCHANGED <<deploy, appStores, s3, paper_files, chat_files, splitVars, raceVars>>

\* what save_chat_history leaves of the file: written; untouched, when makedirs
\* or open raises; truncated by open(.., 'w') when json.dump raises, which
\* get_chat_history then reads as []
WriteOutcomes == {"written", "untouched", "truncated"}

\* chat_answer returns (lines 201-217); when save_chat_history raises, its
\* exception reaches the except of lines 219-229
ChatOracleReturns(r, write) ==
    /\ rq.handler = "chat"
    /\ pc = "chat"
    /\ LET history == Append(loc.history, [role |-> "model", text |-> _call_gemini(r)])
       IN /\ loc' = [loc EXCEPT !.history = history]
          /\ ext' = Append(Returned(ext, _call_gemini(r)),
                           CallDone("chat_write", rq.url, write = "written"))
          /\ IF write = "written"
             THEN /\ chat_files' = Put(chat_files, chat_key(rq.sid, rq.url), history)
                  /\ Finish(rq, Response(200, "answer", _call_gemini(r)), FALSE)
             ELSE /\ chat_files' = IF write = "truncated"
                                   THEN Put(chat_files, chat_key(rq.sid, rq.url), <<>>)
                                   ELSE chat_files
                  /\ Finish(rq, Response(500, "error", <<"Error generating response: ">>), FALSE)
    /\ UNCHANGED <<deploy, rq, pre, nreq, appStores, s3, paper_files, client_cache, splitVars, raceVars>>

\* chat_answer raises (lines 219-229)
ChatOracleRaises ==
    /\ rq.handler = "chat"
    /\ pc = "chat"
    /\ loc' = [loc EXCEPT !.history =
                   IF @ # <<>> /\ @[Len(@)].role = "user" THEN pop(@) ELSE @]
    /\ Finish(rq, Response(500, "error", <<"Error generating response: ">>), FALSE)
    /\ ext' = Raised(ext)
    /\ UNCHANGED <<deploy, rq, pre, nreq, appStores, lambdaStores, splitVars, raceVars>>

ChatValid(event) ==
    /\ event.kind = "json"
    /\ Truthy(strip(event.paper_url))
    /\ Truthy(strip(event.message))
    /\ Truthy(event.session_id)

ChatNext ==
    \/ \E e \in ChatEvents :
         \E secret_ok \in Outcomes(ChatValid(e) /\ ~ client_cache.chat) :
           \E paper_ok \in Outcomes(ChatValid(e) /\ secret_ok) :
             \E fs_ok \in Outcomes(ChatValid(e) /\ secret_ok /\ paper_ok) :
               \E read_ok \in Outcomes(ChatValid(e) /\ secret_ok /\ paper_ok /\ fs_ok) :
                 ChatReceive(e, secret_ok, paper_ok, fs_ok, read_ok)
    \/ \E r \in Responses, write \in WriteOutcomes : ChatOracleReturns(r, write)
    \/ ChatOracleRaises

--------------------------------------------------------------------------
(* research-paper-summarizer: two invocations for one url running at once,  *)
(* each in its own execution environment, over the one S3 bucket.  Every S3 *)
(* call, extraction and summarization of these invocations succeeds.        *)

Invocations == {1, 2}
RACE_URL == <<"http://", "p1">>

NotInvoked == [pc |-> "off", level |-> <<>>, cached |-> NoPaper, summary |-> <<>>,
               computed |-> FALSE]

RaceIdle == [inv |-> [i \in Invocations |-> NotInvoked], last_put |-> 0]

\* invocation i moves on with its record changed to r
RaceStep(i, r) == race' = [race EXCEPT !.inv[i] = r]

\* "cached_data = get_cached_paper_s3(url)" (line 216) and the branch on it
RaceGet(i) ==
    /\ race.inv[i].pc = "get"
    /\ LET cached == get_cached_paper_s3(s3, RACE_URL, TRUE)
       IN RaceStep(i, [race.inv[i] EXCEPT
               !.cached = cached,
               !.pc = IF ~ cached.found THEN "extract"
                      ELSE IF race.inv[i].level \notin DOMAIN cached.summaries
                      THEN "summarize" ELSE "respond"])
    /\ UNCHANGED <<storeVars, reqVars, splitVars>>

\* "text = extract_text_from_url(url)" returns a long enough text (lines 221-230)
RaceExtract(i, text) ==
    /\ race.inv[i].pc = "extract"
    /\ ~ too_short(text)
    /\ RaceStep(i, [race.inv[i] EXCEPT
           !.cached = Paper([text |-> text, summaries |-> EmptyDict]),
           !.pc = "put_doc"])
    /\ UNCHANGED <<storeVars, reqVars, splitVars>>

\* "cache_paper_s3(url, text, {})" (line 231)
RacePutDoc(i) ==
    /\ race.inv[i].pc = "put_doc"
    /\ s3' = cache_paper_s3(s3, RACE_URL, race.inv[i].cached.text, EmptyDict, TRUE)
    /\ race' = [race EXCEPT !.inv[i].pc = "summarize", !.last_put = i]
    /\ UNCHANGED <<DOC_CACHE, CHAT_HISTORY, paper_files, chat_files, client_cache,
                   reqVars, splitVars>>

\* "summary = summarize_map_reduce(...)" returns; "cached_data['summaries'][level]
\* = summary" (lines 244-245).  r: the response to its reduce call.
RaceSummarize(i, r) ==
    /\ race.inv[i].pc = "summarize"
    /\ RaceStep(i, [race.inv[i] EXCEPT
           !.summary = _call_gemini(r),
           !.computed = TRUE,
           !.cached = [@ EXCEPT !.summaries = Put(@, race.inv[i].level, _call_gemini(r))],
           !.pc = "put_summary"])
    /\ UNCHANGED <<storeVars, reqVars, splitVars>>

\* "cache_paper_s3(url, cached_data['text'], cached_data['summaries'])" (line 248)
RacePutSummary(i) ==
    /\ race.inv[i].pc = "put_summary"
    /\ s3' = cache_paper_s3(s3, RACE_URL, race.inv[i].cached.text,
                            race.inv[i].cached.summaries, TRUE)
    /\ race' = [race EXCEPT !.inv[i].pc = "respond", !.last_put = i]
    /\ UNCHANGED <<DOC_CACHE, CHAT_HISTORY, paper_files, chat_files, client_cache,
                   reqVars, splitVars>>

\* the 200 response of lines 259-269
RaceRespond(i) ==
    /\ race.inv[i].pc = "respond"
    /\ RaceStep(i, [race.inv[i] EXCEPT
           !.summary = race.inv[i].cached.summaries[race.inv[i].level],
           !.pc = "done"])
    /\ UNCHANGED <<storeVars, reqVars, splitVars>>

--------------------------------------------------------------------------
(* Specifications *)

HandlersIdle ==
    /\ DOC_CACHE = EmptyDict
    /\ CHAT_HISTORY = EmptyDict
    /\ s3 = EmptyDict
    /\ chat_files = EmptyDict
    /\ client_cache = [summarizer |-> FALSE, chat |-> FALSE]
    /\ pc = "idle"
    /\ rq = NoRequest
    /\ loc = NoLocals
    /\ ext = <<>>
    /\ resp = NoResponse
    /\ pre = NoSnapshot
    /\ prev_fail = <<>>
    /\ nreq = 0

SplitIdle ==
    /\ split_pc = "ready"
    /\ in_text = <<>>
    /\ in_max = 0
    /\ in_overlap = 0
    /\ out_chunks = <<>>

\* /tmp/paper_cache is written by no code of the repository: what it holds is
\* the environment's.  A fresh execution environment has it empty; the other
\* initial state has a document in it.
ProvisionedPapers ==
    [u \in {<<"http://", "p1">>} |-> [text |-> TEXT_TWO, summaries |-> EmptyDict]]

Init ==
    /\ SplitIdle
    /\ HandlersIdle
    /\ race = RaceIdle
    /\ deploy \in {"app", "lambda"}
    /\ paper_files \in IF deploy = "lambda" THEN {EmptyDict, ProvisionedPapers}
                       ELSE {EmptyDict}

Next == AppNext \/ SumNext \/ ChatNext \/ HandlerReturns

Spec == Init /\ [][Next]_vars

\* Specification RaceSpec: two invocations of research-paper-summarizer at once
RaceInit ==
    /\ SplitIdle
    /\ HandlersIdle
    /\ deploy = "lambda"
    /\ paper_files = EmptyDict
    /\ race \in {[inv |-> [i \in Invocations |-> [NotInvoked EXCEPT !.pc = "get", !.level = l[i]]],
                  last_put |-> 0] : l \in [Invocations -> VALID_LEVELS]}

RaceNext ==
    \E i \in Invocations :
        \/ RaceGet(i)
        \/ \E t \in ExtractResults : RaceExtract(i, t)
        \/ RacePutDoc(i)
        \/ \E r \in Responses : RaceSummarize(i, r)
        \/ RacePutSummary(i)
        \/ RaceRespond(i)

RaceSpec == RaceInit /\ [][RaceNext]_vars

--------------------------------------------------------------------------
(* Specification SplitSpec: _split_text applied to every bounded input *)

SplitInit ==
    /\ split_pc = "ready"
    /\ in_text \in StringsUpTo(MaxTextLen)
    /\ in_max \in 1..MaxChars
    /\ in_overlap \in 0..MaxOverlap
    /\ out_chunks = <<>>
    /\ HandlersIdle
    /\ deploy = "app"
    /\ paper_files = EmptyDict
    /\ race = RaceIdle

SplitCall ==
    /\ split_pc = "ready"
    /\ out_chunks' = _split_text(in_text, in_max, in_overlap)
    /\ split_pc' = "done"
    /\ UNCHANGED <<in_text, in_max, in_overlap, storeVars, reqVars, raceVars>>

SplitNext == SplitCall

SplitSpec == SplitInit /\ [][SplitNext]_vars

--------------------------------------------------------------------------
(* Properties of _split_text, checked under SplitSpec *)

Range(seq) == {seq[i] : i \in 1..Len(seq)}

\* the overlap seed at the head of chunk i: the tail of chunk i-1 (none for i = 1)
SeedOf(chunks, i, overlap) ==
    IF i = 1 THEN <<>> ELSE tail_slice(chunks[i - 1], overlap)

\* the text of chunk i behind its seed
AfterSeed(chunks, i, overlap) ==
    SubSeq(chunks[i], Len(SeedOf(chunks, i, overlap)) + 1, Len(chunks[i]))

\* the words packed into chunk i (those behind its seed)
PackedWords(chunks, i, overlap) == split(AfterSeed(chunks, i, overlap))

RECURSIVE RejoinFrom(_, _, _)
RejoinFrom(chunks, i, overlap) ==
    IF i > Len(chunks) THEN <<>>
    ELSE PackedWords(chunks, i, overlap) \o RejoinFrom(chunks, i + 1, overlap)

\* ws is a contiguous run of the word sequence all
IsRun(ws, all) ==
    \E k \in 0..Len(all) :
        /\ k + Len(ws) <= Len(all)
        /\ ws = SubSeq(all, k + 1, k + Len(ws))

SplitDone == split_pc = "done"
LongInput == Len(in_text) > in_max

\* C4: a text no longer than max_chars comes back as exactly one chunk, the
\* text itself with its whitespace untouched, whatever the overlap (the empty
\* text included).
C4_ShortTextSingleChunk ==
    (SplitDone /\ Len(in_text) <= in_max) => out_chunks = <<in_text>>

C4_Witness ==
    /\ SplitDone
    /\ in_text # <<>>
    /\ Len(in_text) = in_max
    /\ join(split(in_text)) # in_text
    /\ in_overlap > in_max
    /\ out_chunks = <<in_text>>

\* C5: for a text longer than max_chars, dropping the overlap seed of every
\* chunk after the first and concatenating the words that remain gives back
\* the word sequence of the text: nothing lost, duplicated or reordered.
C5_RejoinReconstructsWords ==
    (SplitDone /\ LongInput) =>
        RejoinFrom(out_chunks, 1, in_overlap) = split(in_text)

C5_Witness ==
    /\ SplitDone /\ LongInput
    /\ Len(out_chunks) >= 3
    /\ in_overlap >= 1
    /\ \E i \in 2..Len(out_chunks) : Len(split(SeedOf(out_chunks, i, in_overlap))) >= 1
    /\ Cardinality(Range(split(in_text))) >= 2
    /\ RejoinFrom(out_chunks, 1, in_overlap) = split(in_text)

\* C6 (as claimed): a chunk is longer than max_chars only when its overlap seed
\* alone is longer than max_chars; so with overlap < max_chars no chunk is longer.
C6_ChunksWithinMaxChars ==
    SplitDone =>
        \A i \in 1..Len(out_chunks) :
            \/ Len(out_chunks[i]) <= in_max
            \/ Len(SeedOf(out_chunks, i, in_overlap)) > in_max

\* C7 (as claimed): a non-empty text never yields an empty chunk, nor an empty list.
C7_NoEmptyChunk ==
    (SplitDone /\ in_text # <<>>) =>
        /\ out_chunks # <<>>
        /\ \A i \in 1..Len(out_chunks) : out_chunks[i] # <<>>

OverlapNotBelowMax == SplitDone /\ LongInput /\ in_overlap >= in_max

\* the length of the longest word of a text
LongestWord(text) ==
    LET ws == split(text)
    IN IF ws = <<>> THEN 0
       ELSE CHOOSE n \in {Len(ws[i]) : i \in 1..Len(ws)} :
                \A i \in 1..Len(ws) : Len(ws[i]) <= n

--------------------------------------------------------------------------
(* Properties of the handlers, checked under Spec *)

IsSummarize == rq.handler \in {"app_summarize", "summarizer"}
IsChat == rq.handler \in {"app_chat", "chat"}

\* the document store and the history store of the deployment
Docs == IF deploy = "app" THEN DOC_CACHE ELSE s3
Chats == IF deploy = "app" THEN CHAT_HISTORY ELSE chat_files

\* the key of the request's conversation in the history store
ChatKey == IF deploy = "app" THEN <<rq.sid, rq.url>> ELSE chat_key(rq.sid, rq.url)

\* the turns a history store holds for a key (none when it has no such key)
TurnsIn(store, key) == IF key \in DOMAIN store THEN store[key] ELSE <<>>

\* the summaries a document store holds for a url (none when it has no entry)
SummariesIn(store, url) == IF url \in DOMAIN store THEN store[url].summaries ELSE EmptyDict

CallsOf(kind) == SelectSeq(ext, LAMBDA c : c.call = kind)

SomeRaised(kind) == \E i \in 1..Len(ext) : ext[i].call = kind /\ ext[i].state = "raised"

\* the summarize request got as far as looking the document up in the cache
LookedUp ==
    /\ IsSummarize
    /\ IF deploy = "app" THEN is_http_url(rq.url) ELSE CallsOf("s3_get") # <<>>

\* ... and the lookup read the cache (an S3 read can fail; a dict lookup cannot)
CacheRead == LookedUp /\ ~ SomeRaised("s3_get")

\* the cache held a summary for the request's (url, level) when it arrived
WarmFor ==
    /\ rq.url \in DOMAIN pre.docs
    /\ rq.level \in DOMAIN pre.docs[rq.url].summaries

\* the request answers from the cache: no extraction, no oracle call, and the
\* summary the cache held
AnsweredFromCache ==
    /\ pc = "done"
    /\ CallsOf("extract") = <<>>
    /\ CallsOf("oracle") = <<>>
    /\ resp = Response(200, "summary", pre.docs[rq.url].summaries[rq.level])

\* a summarize request that has returned its summary and whose write of the
\* cache entry did not fail leaves that summary in the entry
ReturnedIsCached ==
    (pc = "done" /\ IsSummarize /\ resp.status = 200 /\ resp.body = "summary"
        /\ ~ SomeRaised("s3_put") /\ (CallsOf("s3_put") # <<>> \/ deploy = "app"))
    => /\ rq.url \in DOMAIN Docs
       /\ rq.level \in DOMAIN Docs[rq.url].summaries
       /\ Docs[rq.url].summaries[rq.level] = resp.value

\* C1: in both chat entry points, when the oracle call of a chat request fails,
\* the stored history of the (session, document) after the request has exactly
\* the turns it had before the request: the appended user turn is gone and no
\* model turn was added.
C1_ChatRollback ==
    (pc = "done" /\ IsChat /\ SomeRaised("oracle"))
    => TurnsIn(Chats, ChatKey) = TurnsIn(pre.chats, ChatKey)

C1_Witness ==
    /\ pc = "done" /\ IsChat /\ SomeRaised("oracle")
    /\ Len(TurnsIn(pre.chats, ChatKey)) >= 2
    /\ resp.status = 500

\* the same case in the chat_with_paper handler
C1_WitnessLambda == C1_Witness /\ deploy = "lambda"

\* C2: a summarization of a text of n chunks issues its oracle calls one at a
\* time: the i-th call (i <= n) carries chunk i, it is issued only when every
\* earlier call has returned, the (n+1)-th call is the reduce call over the n
\* returned partial summaries in chunk order, there is no call after it, and a
\* successful summarization has issued exactly n + 1 calls.
C2_MapThenReduceInOrder ==
    (IsSummarize /\ CallsOf("oracle") # <<>>)
    => LET calls == CallsOf("oracle")
           chunks == _split_text(loc.text, DEFAULT_MAX_CHARS, DEFAULT_OVERLAP)
           n == Len(chunks)
       IN /\ Len(calls) <= n + 1
          /\ \A i \in 1..Len(calls) :
                /\ i < Len(calls) => calls[i].state = "returned"
                /\ i <= n => calls[i].contents
                                = <<[role |-> "user",
                                     text |-> <<"CHUNK_SUMMARY_PROMPT level=">> \o rq.level
                                                \o <<"CHUNK:">> \o chunks[i]]>>
                /\ i = n + 1 => calls[i].contents
                                = <<[role |-> "user",
                                     text |-> <<"REDUCE_SUMMARY_PROMPT level=">> \o rq.level
                                                \o <<"PARTIALS:">>
                                                \o join_with(<<"\n\n">>,
                                                             [j \in 1..n |-> calls[j].out], 1)]>>
          /\ (pc = "done" /\ resp.status = 200)
                => /\ Len(calls) = n + 1
                   /\ calls[n + 1].state = "returned"
                   /\ resp.value = calls[n + 1].out

C2_Witness ==
    /\ IsSummarize /\ pc = "done" /\ resp.status = 200
    /\ Len(CallsOf("oracle")) = 3
    /\ CallsOf("oracle")[1].out # CallsOf("oracle")[2].out

\* C3 as stated: when the cache holds a summary for (url, L) at the arrival of
\* a summarize request for (url, L), the request issues no extraction call and
\* no oracle call and returns that summary.
C3_WarmEntryNoCalls ==
    (LookedUp /\ WarmFor) => AnsweredFromCache

\* C3, amended: for every level L, when the cache holds a summary for (url, L)
\* at the arrival of a summarize request for (url, L) and the request's read of
\* the cache succeeds, the request issues no extraction call and no oracle call
\* and returns the cached summary, which is the summary returned by the request
\* that cached it.
C3_WarmEntryReadNoCalls ==
    /\ (CacheRead /\ WarmFor) => AnsweredFromCache
    /\ ReturnedIsCached

C3_Witness ==
    /\ deploy = "lambda"
    /\ CacheRead /\ WarmFor /\ AnsweredFromCache
    /\ rq.level = <<"HIGH">>

\* the same case in app.py
C3_WitnessApp == deploy = "app" /\ LookedUp /\ WarmFor /\ AnsweredFromCache

\* C9 as stated: when an oracle call of a summarization raises, it is the last
\* call of the request, the request returns a 5xx response, and the cache holds
\* for the document the summaries it held when the request arrived: none for
\* the request's level was added, those of the other levels are unchanged.
C9_OracleFailureLeavesSummaries ==
    (IsSummarize /\ SomeRaised("oracle"))
    => /\ ext[Len(ext)].call = "oracle" /\ ext[Len(ext)].state = "raised"
       /\ pc = "done"
       /\ resp.status = 500
       /\ SummariesIn(Docs, rq.url) = SummariesIn(pre.docs, rq.url)

\* the request put a new entry for its document into the cache before it
\* summarized: the extraction path of the S3 handler, taken after a cache read
\* that found nothing or failed
Recached == \E i \in 1..Len(ext) : ext[i].call = "s3_put" /\ ext[i].state = "returned"

\* C9, amended: when an oracle call of a summarization raises, it is the last
\* call of the request, the request returns a 5xx response and stores no
\* summary; the summaries cached for the document are those the request found,
\* or none at all when the request had extracted the document anew and written
\* its entry before summarizing.
C9_OracleFailureStoresNothing ==
    (IsSummarize /\ SomeRaised("oracle"))
    => /\ ext[Len(ext)].call = "oracle" /\ ext[Len(ext)].state = "raised"
       /\ pc = "done"
       /\ resp.status = 500
       /\ SummariesIn(Docs, rq.url)
             = IF Recached THEN EmptyDict ELSE SummariesIn(pre.docs, rq.url)

C9_Witness ==
    /\ IsSummarize /\ SomeRaised("oracle") /\ pc = "done"
    /\ Len(CallsOf("oracle")) = 2
    /\ SummariesIn(pre.docs, rq.url) # EmptyDict
    /\ rq.level \notin DOMAIN SummariesIn(pre.docs, rq.url)

\* the extraction call of the request failed: it raised, or returned a text
\* that is empty or too short once stripped
ExtractionFailed ==
    \E i \in 1..Len(ext) :
        /\ ext[i].call = "extract"
        /\ \/ ext[i].state = "raised"
           \/ ext[i].state = "returned"
                /\ (ext[i].out = <<>> \/ Len(strip(ext[i].out)) < MIN_TEXT_CHARS)

\* a failed extraction ends the request with an error response, without an
\* oracle call and with the document cache as the request found it
FailedExtractionCommitsNothing ==
    (IsSummarize /\ ExtractionFailed)
    => /\ pc = "done"
       /\ resp.status \in {400, 500} /\ resp.body = "error"
       /\ CallsOf("oracle") = <<>>
       /\ Docs = pre.docs

\* the request is the one that follows a failed extraction for the same url
FollowsFailedExtraction == LookedUp /\ pre.prev_fail = rq.url

\* C10 as stated: a failed extraction ends the request with an error response,
\* no oracle call and no cache entry committed, and the next summarize request
\* for the same url performs extraction again.
C10_FailedExtractionThenReextract ==
    /\ FailedExtractionCommitsNothing
    /\ FollowsFailedExtraction => CallsOf("extract") # <<>>

\* C10, amended: a failed extraction ends the request with an error response,
\* no oracle call and no cache entry committed; the next summarize request for
\* the same url performs extraction again unless it reads an entry the cache
\* already held for the url.
C10_FailedExtractionCommitsNothing ==
    /\ FailedExtractionCommitsNothing
    /\ (FollowsFailedExtraction /\ ~ (CacheRead /\ rq.url \in DOMAIN pre.docs))
          => CallsOf("extract") # <<>>

C10_Witness ==
    /\ FollowsFailedExtraction
    /\ ExtractionFailed /\ pc = "done"
    /\ \E i \in 1..Len(ext) : ext[i].call = "extract" /\ ext[i].state = "returned"

\* a summarize request whose url is missing or is no http(s) url, a chat
\* request whose url or message is missing (the request holds them trimmed)
FailsValidation ==
    \/ /\ IsSummarize /\ rq.body \in {"form", "json"}
       /\ \/ rq.url = <<>>
          \/ ~ (startswith(rq.url, <<"http://">>) \/ startswith(rq.url, <<"https://">>))
    \/ /\ IsChat /\ rq.body = "json"
       /\ (rq.url = <<>> \/ rq.message = <<>>)

C11_WitnessChat ==
    /\ FailsValidation /\ pc = "done" /\ resp.status = 400
    /\ deploy = "app" /\ IsChat
    /\ rq.url # <<>> /\ rq.message = <<>>
    /\ pre.chats # EmptyDict

\* a summarize request that carries a complexity value (its body was parsed)
HasLevel == IsSummarize /\ rq.body \in {"form", "json"}

\* the keys of every cached summaries mapping are LOW, MEDIUM, HIGH
OnlyValidLevelsCached ==
    \A u \in DOMAIN Docs : DOMAIN Docs[u].summaries \subseteq VALID_LEVELS

\* a summarize request with an http(s) url that ended in an error had a call
\* that failed: the level value is never what fails it
ErrorHasCause ==
    (HasLevel /\ pc = "done" /\ resp.status # 200
        /\ (startswith(rq.url, <<"http://">>) \/ startswith(rq.url, <<"https://">>)))
    => \/ SomeRaised("secret") \/ SomeRaised("extract") \/ SomeRaised("oracle")
       \/ ExtractionFailed

StorageFailed ==
    \E i \in 1..Len(ext) :
        /\ ext[i].call \in {"s3_get", "s3_put", "paper_read", "chat_read", "chat_write"}
        /\ ext[i].state = "raised"

\* the request passed validation, none of its secret, extraction and oracle
\* calls failed, and a chat request has its answer from the oracle
PrimaryWorkSucceeded ==
    /\ pc = "done"
    /\ (IsSummarize \/ IsChat) /\ rq.body \in {"form", "json"} /\ ~ FailsValidation
    /\ ~ SomeRaised("secret") /\ ~ SomeRaised("extract") /\ ~ SomeRaised("oracle")
    /\ ~ ExtractionFailed
    /\ IsChat => CallsOf("oracle") # <<>>

\* C13 (as claimed): when a read or write of the paper cache or of the chat
\* history store fails while extraction and the oracle calls succeed, the
\* request still returns its summary or answer with a success status.
C13_StorageFailureNotFatal ==
    (PrimaryWorkSucceeded /\ StorageFailed) => resp.status = 200

\* the part that holds: in research-paper-summarizer no failure of an S3 read
\* or write changes the outcome of a request whose extraction and oracle calls
\* succeeded
C13_S3FailureNotFatal ==
    (PrimaryWorkSucceeded /\ StorageFailed /\ IsSummarize)
    => resp = Response(200, "summary", loc.summaries[rq.level])

\* the request received a malformed oracle response: one without usable text in
\* output_text, text and candidates, for which _call_gemini returns str(resp)
GotMalformedResponse ==
    \E i \in 1..Len(ext) :
        ext[i].call = "oracle" /\ ext[i].state = "returned" /\ ext[i].out = REPR

\* no cached summary and no stored turn is text made from a malformed response
NothingStoredFromMalformed ==
    /\ \A u \in DOMAIN Docs : \A l \in DOMAIN Docs[u].summaries : Docs[u].summaries[l] # REPR
    /\ \A k \in DOMAIN Chats : \A i \in 1..Len(Chats[k]) : Chats[k][i].text # REPR

\* C14 (as claimed): a request that received a malformed oracle response ends
\* with a 5xx response, a summarize request caching no summary for its level
\* and a chat request leaving the history as it found it; no text made from
\* such a response is ever stored as a summary or as a model turn.
C14_MalformedResponseIsFailure ==
    /\ (GotMalformedResponse /\ pc = "done")
          => /\ resp.status \in 500..599
             /\ IsSummarize => SummariesIn(Docs, rq.url) = SummariesIn(pre.docs, rq.url)
             /\ IsChat => TurnsIn(Chats, ChatKey) = TurnsIn(pre.chats, ChatKey)
    /\ NothingStoredFromMalformed

\* a chat request waiting for the oracle: chat_answer is in its call
InChatAnswer == IsChat /\ pc = "chat"

\* the history list the handler passed to chat_answer, as it is during the call
HistoryArgument == IF deploy = "app" THEN CHAT_HISTORY[ChatKey] ELSE loc.history

\* the document text the handler passed to chat_answer
DocumentArgument == IF deploy = "app" THEN DOC_CACHE[rq.url].text ELSE paper_files[rq.url].text

\* C15: while chat_answer waits for the oracle, its history argument H is still
\* the list the handler built (the stored turns followed by the new user
\* message), exactly one oracle call has been made, and the message list of
\* that call has length len(H) + 1: first the instruction message built from
\* the first max_context_chars characters of the document text, then every
\* turn of H in order with role and text unchanged, the new user message last.
C15_ChatMessageList ==
    /\ IsChat => Len(CallsOf("oracle")) <= 1
    /\ InChatAnswer
          => LET H == HistoryArgument
                 doc == DocumentArgument
                 sent == CallsOf("oracle")[1].contents
                 cut == IF Len(doc) < MAX_CONTEXT_CHARS THEN Len(doc) ELSE MAX_CONTEXT_CHARS
             IN /\ Len(CallsOf("oracle")) = 1
                /\ H # <<>>
                /\ H[Len(H)] = [role |-> "user", text |-> rq.message]
                /\ deploy = "app"
                      => SubSeq(H, 1, Len(H) - 1) = TurnsIn(pre.chats, ChatKey)
                /\ deploy = "lambda"
                      => SubSeq(H, 1, Len(H) - 1) \in {TurnsIn(pre.chats, ChatKey), <<>>}
                /\ Len(sent) = Len(H) + 1
                /\ sent[1] = [role |-> "user",
                              text |-> <<"CHAT_PROMPT CONTEXT:">> \o SubSeq(doc, 1, cut)]
                /\ \A i \in 1..Len(H) : sent[i + 1] = H[i]

C15_Witness ==
    /\ InChatAnswer
    /\ Len(HistoryArgument) = 3
    /\ Len(DocumentArgument) > MAX_CONTEXT_CHARS
    /\ Len(CallsOf("oracle")[1].contents) = 4

\* a chat request whose oracle call raised, made with 4 prior turns and the new
\* user message: its message list was the instruction, the 4 turns, the message
FailedChatAfterFourTurns ==
    /\ pc = "done" /\ IsChat /\ SomeRaised("oracle")
    /\ Len(CallsOf("oracle")[1].contents) = 6

\* the history list of the handler once the request is over: the list held in
\* CHAT_HISTORY (app.py), the local list (chat_with_paper)
ResultingHistory == IF deploy = "app" THEN CHAT_HISTORY[ChatKey] ELSE loc.history

\* C16 as stated: the chat call with 4 prior turns whose oracle call raises
\* leaves a history of length 5.
C16_FailedChatLeavesFive ==
    FailedChatAfterFourTurns => Len(ResultingHistory) = 5

\* C16, amended: the chat call with 4 prior turns whose oracle call raises
\* leaves a history of length 4, the 4 prior turns: the new user turn is
\* removed again and no model turn is appended, in the handler's list and in
\* the store.
C16_FailedChatLeavesFour ==
    FailedChatAfterFourTurns
    => /\ Len(ResultingHistory) = 4
       /\ ResultingHistory = TurnsIn(pre.chats, ChatKey)
       /\ TurnsIn(Chats, ChatKey) = ResultingHistory

C16_Witness ==
    /\ FailedChatAfterFourTurns
    /\ Len(TurnsIn(pre.chats, ChatKey)) = 4
    /\ resp.status = 500

\* every document DOC_CACHE holds is still held after the step, with the same
\* text and with every summary it had
DocCacheKept ==
    \A u \in DOMAIN DOC_CACHE :
        /\ u \in DOMAIN DOC_CACHE'
        /\ DOC_CACHE'[u].text = DOC_CACHE[u].text
        /\ \A l \in DOMAIN DOC_CACHE[u].summaries :
              /\ l \in DOMAIN DOC_CACHE'[u].summaries
              /\ DOC_CACHE'[u].summaries[l] = DOC_CACHE[u].summaries[l]

\* a request of app.py extracts only a url DOC_CACHE did not hold at its arrival
\* and summarizes only a (url, level) DOC_CACHE had no summary for
NoRepeatedWork ==
    (deploy = "app" /\ rq.handler = "app_summarize")
    => /\ CallsOf("extract") # <<>> => rq.url \notin DOMAIN pre.docs
       /\ CallsOf("oracle") # <<>> => rq.level \notin DOMAIN SummariesIn(pre.docs, rq.url)

\* C17: against app.py, no step of any request changes the text of a cached
\* document or overwrites or removes a cached summary, and no request extracts
\* a url that is cached or summarizes a (url, level) that has a summary: at
\* most one successful extraction per url and one successful summarization per
\* (url, level).
C17_DocCacheImmutable ==
    /\ [](NoRepeatedWork)
    /\ [][deploy = "app" => DocCacheKept]_vars

C17_Witness ==
    /\ deploy = "app" /\ rq.handler = "app_summarize" /\ pc = "done" /\ resp.status = 200
    /\ CallsOf("oracle") # <<>>
    /\ rq.url \in DOMAIN pre.docs
    /\ pre.docs[rq.url].summaries # EmptyDict
    /\ DOMAIN DOC_CACHE[rq.url].summaries = DOMAIN pre.docs[rq.url].summaries \cup {rq.level}

\* a history is empty or user, model, user, model, ...: it starts with a user
\* turn, ends with a model turn and its length is even
Alternating(h) ==
    /\ Len(h) % 2 = 0
    /\ \A i \in 1..Len(h) : h[i].role = IF i % 2 = 1 THEN "user" ELSE "model"

\* no request is being served
RequestCompleted == pc \in {"done", "idle"}

\* the request is a chat that was answered
SuccessfulChat == pc = "done" /\ IsChat /\ resp.status = 200 /\ resp.body = "answer"

\* the stored history of the request's conversation is the one stored before
\* the request, followed by the user turn and the model answer
ExtendedByExchange ==
    TurnsIn(Chats, ChatKey)
        = TurnsIn(pre.chats, ChatKey)
            \o <<[role |-> "user", text |-> rq.message],
                 [role |-> "model", text |-> resp.value]>>

\* the read of the stored history failed on a file that has turns
HistoryReadFailed ==
    /\ deploy = "lambda"
    /\ \E i \in 1..Len(ext) : ext[i].call = "chat_read" /\ ext[i].state = "raised"
    /\ TurnsIn(pre.chats, ChatKey) # <<>>

\* C20 as stated: after every completed request every stored history is
\* alternating, and a successful chat extends the stored history by the user
\* turn and the model answer, leaving the earlier turns unchanged.
C20_HistoryAlternatesAndExtends ==
    /\ RequestCompleted => \A k \in DOMAIN Chats : Alternating(Chats[k])
    /\ SuccessfulChat => ExtendedByExchange

\* The first half of C20 holds in both deployments: after every completed
\* request every stored history is alternating.
C20_HistoriesAlternate ==
    RequestCompleted => \A k \in DOMAIN Chats : Alternating(Chats[k])

\* The second half of C20 holds whenever the stored history could be read.
C20_ExtendsWhatWasRead ==
    (SuccessfulChat /\ ~ HistoryReadFailed) => ExtendedByExchange

\* the failing case: a chat answered with 200 after get_chat_history could not
\* read a stored history of at least one exchange
C20_LostTurns ==
    /\ SuccessfulChat
    /\ HistoryReadFailed
    /\ Len(TurnsIn(pre.chats, ChatKey)) >= 2
    /\ Len(TurnsIn(Chats, ChatKey)) = 2

\* the chat_with_paper handler has answered, or is at its oracle call, for a
\* request with a non-empty message and session id whose document the
\* research-paper-summarizer handler has stored through cache_paper_s3
ChatAfterSummarize ==
    /\ deploy = "lambda"
    /\ rq.handler = "chat"
    /\ pc \in {"chat", "done"}
    /\ rq.body = "json"
    /\ Truthy(rq.message)
    /\ Truthy(rq.sid)
    /\ rq.url \in DOMAIN s3

\* the response "Please summarize the paper first" (lines 185-190)
SummarizeFirst ==
    /\ pc = "done"
    /\ resp = Response(400, "error", <<"Please summarize the paper first">>)

\* C21 as stated: a chat for a document that a summarize request has stored is
\* not rejected with "Please summarize the paper first".
C21_ChatFindsSummarizedPaper == ChatAfterSummarize => ~ SummarizeFirst

\* What the chat handler does instead: it looks the document up in
\* /tmp/paper_cache only, so a chat is rejected with "Please summarize the
\* paper first" exactly when it got as far as the lookup and the file is not
\* there or cannot be read, whatever the summarizer has stored.
C21_ChatReadsLocalFilesOnly ==
    (ChatAfterSummarize /\ SummarizeFirst)
    => \/ rq.url \notin DOMAIN paper_files
       \/ \E i \in 1..Len(ext) : ext[i].call = "paper_read" /\ ext[i].state = "raised"

\* the failing case: in an execution environment whose /tmp/paper_cache is
\* empty, the document is in the bucket with its summary and the chat is rejected
C21_RejectedAfterSummarize ==
    /\ ChatAfterSummarize
    /\ SummarizeFirst
    /\ paper_files = EmptyDict
    /\ s3[rq.url].summaries # EmptyDict

--------------------------------------------------------------------------
(* Properties of concurrent invocations, checked under RaceSpec *)

BothResponded == \A i \in Invocations : race.inv[i].pc = "done"

\* C18 as stated: after both interleaved requests have completed, the cache
\* entry of the url holds the document text and the summary of every level
\* that either request computed.
C18_NoSummaryLost ==
    BothResponded
    => /\ RACE_URL \in DOMAIN s3
       /\ \A i \in Invocations :
             race.inv[i].computed
             => /\ race.inv[i].level \in DOMAIN s3[RACE_URL].summaries
                /\ s3[RACE_URL].text \in {race.inv[j].cached.text : j \in Invocations}

\* C18, amended: after both interleaved requests have completed, each has
\* returned the summary it computed or read, and the cache entry of the url is
\* the entry of the request that wrote last: its text and its summaries, among
\* them the summary of its own level.  Every summary in the entry was returned
\* by one of the two requests, but a summary the other request stored need not
\* be in it.
C18_LastWriteWins ==
    BothResponded
    => /\ RACE_URL \in DOMAIN s3
       /\ race.last_put \in Invocations
       /\ LET w == race.inv[race.last_put]
          IN /\ s3[RACE_URL] = [text |-> w.cached.text, summaries |-> w.cached.summaries]
             /\ w.level \in DOMAIN s3[RACE_URL].summaries
             /\ s3[RACE_URL].summaries[w.level] = w.summary
       /\ \A l \in DOMAIN s3[RACE_URL].summaries :
             \E i \in Invocations :
                 race.inv[i].level = l /\ race.inv[i].summary = s3[RACE_URL].summaries[l]

C18_Witness ==
    /\ BothResponded
    /\ \A i \in Invocations : race.inv[i].computed
    /\ race.inv[1].level # race.inv[2].level
    /\ DOMAIN s3[RACE_URL].summaries = {race.inv[race.last_put].level}

====
